---- MODULE Spec2Model ----
(***************************************************************************)
(* Product rule layer of the inventory back end: ProductController ->      *)
(* ProductService -> ProductRepository/BaseRepository -> productSchema.    *)
(* Every request runs to completion before the next one starts (Spec).     *)
(***************************************************************************)
EXTENDS Integers, Sequences, FiniteSets, TLC

VARIABLES store, last, pg, req, users, now, reply, procs

vars == <<store, last, pg, req, users, now, reply, procs>>

\* the state of the auth rule layer: user records, the clock, the answer
authVars == <<users, now, reply>>

(* ------------------------------ bounds --------------------------------- *)
MaxProducts == 2
MaxQty == 1
MaxPrice == 1
MaxMinStock == 1
MaxBulk == 2
MaxPage == 3
MaxLimit == 3
MaxRecords == 7
MaxUsers == 2
MaxTime == 1

(* ------------------------------ identities ----------------------------- *)
Users == {"alice", "bob", "root"}

\* the callers that create products
Creators == {"alice", "bob"}



UserRole == [alice |-> "user", bob |-> "manager", root |-> "admin"]

\* an absent optional argument (undefined, or '' which is equally falsy)
NoScope == "undefined"

Scopes == Users \cup {NoScope}

\* an optional value is a set with at most one element
None == {}

Some(v) == {v}

Get(o) == CHOOSE v \in o : TRUE

NullId == 0

ProductIds == 1..(MaxProducts + 1)

(* ------------------------------ SKU strings ---------------------------- *)
\* a string is a sequence of one-character strings
SkuInputs ==
    { <<"x", "1">>, <<"X", "1">>, <<"x", "1", " ">>,
      <<"y", "2">>, <<" ">> }

toUpperCaseChar(c) ==
    CASE c = "x" -> "X"
      [] c = "y" -> "Y"
      [] OTHER -> c

toUpperCase(s) == [i \in 1..Len(s) |-> toUpperCaseChar(s[i])]

RECURSIVE trimStart(_)
trimStart(s) ==
    IF s # <<>> /\ Head(s) = " " THEN trimStart(Tail(s)) ELSE s

RECURSIVE trimEnd(_)
trimEnd(s) ==
    IF s # <<>> /\ s[Len(s)] = " " THEN trimEnd(SubSeq(s, 1, Len(s) - 1)) ELSE s

trim(s) == trimEnd(trimStart(s))

\* productSchema.sku: uppercase: true, trim: true (setters, run on every
\* write and on every query filter that names the path)
skuSetter(s) == trim(toUpperCase(s))

\* request.images: absent, or a list (the empty one keeps the store small)
ImageInputs == {None, Some(<<>>)}

(* ------------------------------ schema --------------------------------- *)
\* validators of productSchema: required sku, min 0 on the three numbers
skuValid(sku) == sku # <<>>

priceValid(price) == price >= 0

quantityValid(quantity) == quantity >= 0

minStockLevelValid(m) == m >= 0

isLowStock(p) == p.quantity <= p.minStockLevel

\* mutant: a quantity equal to the minimum level counts as in stock
stockStatus_strict(p) ==
    IF p.quantity = 0 THEN "OUT_OF_STOCK"
    ELSE IF p.quantity < p.minStockLevel THEN "LOW_STOCK"
    ELSE "IN_STOCK"

stockStatus(p) ==
    IF p.quantity = 0 THEN "OUT_OF_STOCK"
    ELSE IF p.quantity <= p.minStockLevel THEN "LOW_STOCK"
    ELSE "IN_STOCK"

(* ------------------------------ repository ----------------------------- *)
findById(s, id) == IF id \in 1..Len(s) THEN id ELSE NullId

\* model.findOne({ sku }): the filter value goes through the sku setters
findOneBySku(s, sku) ==
    LET q == skuSetter(sku)
        hits == {i \in 1..Len(s) : s[i].sku = q}
    IN IF hits = {} THEN NullId ELSE CHOOSE i \in hits : \A j \in hits : i <= j

\* mutant: the lookup skips soft-deleted products
findBySku_activeOnly(s, sku) ==
    LET i == findOneBySku(s, toUpperCase(sku))
    IN IF i # NullId /\ s[i].isActive THEN i ELSE NullId

findBySku(s, sku) == findOneBySku(s, toUpperCase(sku))

Ok(s) == [err |-> "OK", store |-> s]

Fail(e, s) == [err |-> e, store |-> s]

\* mutant: the store has a unique index on sku and refuses a second document
create_uniqueSku(s, data) ==
    LET doc == [sku |-> skuSetter(data.sku),
                price |-> data.price,
                quantity |-> data.quantity,
                minStockLevel |-> data.minStockLevel,
                images |-> data.images,
                isActive |-> TRUE,
                userId |-> data.userId]
    IN IF ~(skuValid(doc.sku) /\ priceValid(doc.price) /\ quantityValid(doc.quantity)
            /\ minStockLevelValid(doc.minStockLevel))
       THEN Fail("ValidationError", s)
       ELSE IF \E i \in 1..Len(s) : s[i].sku = doc.sku THEN Fail("DuplicateKey", s)
       ELSE Ok(Append(s, doc))

\* new this.model(data).save(): setters, defaults, validators, insert; the
\* index on sku is a plain one, so an equal sku is no obstacle
create(s, data) ==
    LET doc == [sku |-> skuSetter(data.sku),
                price |-> data.price,
                quantity |-> data.quantity,
                minStockLevel |-> data.minStockLevel,
                images |-> data.images,
                isActive |-> TRUE,
                userId |-> data.userId]
    IN IF skuValid(doc.sku) /\ priceValid(doc.price) /\ quantityValid(doc.quantity)
          /\ minStockLevelValid(doc.minStockLevel)
       THEN Ok(Append(s, doc))
       ELSE Fail("ValidationError", s)

\* a patch is a record of optional values
NoPatch ==
    [sku |-> None, price |-> None, quantity |-> None,
     minStockLevel |-> None, isActive |-> None, userId |-> None]

patchValid(patch) ==
    /\ patch.sku # None => skuValid(skuSetter(Get(patch.sku)))
    /\ patch.price # None => priceValid(Get(patch.price))
    /\ patch.quantity # None => quantityValid(Get(patch.quantity))
    /\ patch.minStockLevel # None => minStockLevelValid(Get(patch.minStockLevel))

applyPatch(p, patch) ==
    [p EXCEPT
        !.sku = IF patch.sku = None THEN @ ELSE skuSetter(Get(patch.sku)),
        !.price = IF patch.price = None THEN @ ELSE Get(patch.price),
        !.quantity = IF patch.quantity = None THEN @ ELSE Get(patch.quantity),
        !.minStockLevel =
            IF patch.minStockLevel = None THEN @ ELSE Get(patch.minStockLevel),
        !.isActive = IF patch.isActive = None THEN @ ELSE Get(patch.isActive),
        !.userId = IF patch.userId = None THEN @ ELSE Get(patch.userId)]

\* mutant: runValidators is left out
update_noValidators(s, id, patch) ==
    IF findById(s, id) = NullId THEN Ok(s) @@ [val |-> NullId]
    ELSE Ok([s EXCEPT ![id] = applyPatch(@, patch)]) @@ [val |-> id]

\* findByIdAndUpdate(id, data, { new: true, runValidators: true })
\* val is the id of the returned document, NullId for null
update(s, id, patch) ==
    IF ~patchValid(patch) THEN Fail("ValidationError", s) @@ [val |-> NullId]
    ELSE IF findById(s, id) = NullId THEN Ok(s) @@ [val |-> NullId]
    ELSE Ok([s EXCEPT ![id] = applyPatch(@, patch)]) @@ [val |-> id]

repoUpdateStock(s, id, quantity) ==
    update(s, id, [NoPatch EXCEPT !.quantity = Some(quantity)])

\* the documents of a result, oldest first (creation order is id order)
RECURSIVE ascending(_)
ascending(S) ==
    IF S = {} THEN <<>>
    ELSE LET m == CHOOSE x \in S : \A y \in S : x <= y
         IN <<m>> \o ascending(S \ {m})

reverse(q) == [i \in 1..Len(q) |-> q[Len(q) + 1 - i]]

\* Math.ceil(total / limit) for total >= 0 and limit >= 1
ceilDiv(total, limit) == (total + limit - 1) \div limit

\* mutant: skip counts the requested page too
findWithPagination_skipPage(matching, page, limit, sortOrder) ==
    LET skip == page * limit
        sorted == IF sortOrder = "asc" THEN ascending(matching)
                  ELSE reverse(ascending(matching))
        upto == IF skip + limit < Len(sorted) THEN skip + limit ELSE Len(sorted)
        data == SubSeq(sorted, skip + 1, upto)
        total == Cardinality(matching)
        pages == ceilDiv(total, limit)
    IN [data |-> data, page |-> page, limit |-> limit, total |-> total,
        pages |-> pages, hasNext |-> page < pages, hasPrev |-> page > 1]

\* find(filter).sort(sortOptions).skip(skip).limit(limit) with countDocuments;
\* matching is the set of the ids that satisfy the filter
findWithPagination(matching, page, limit, sortOrder) ==
    LET skip == (page - 1) * limit
        sorted == IF sortOrder = "asc" THEN ascending(matching)
                  ELSE reverse(ascending(matching))
        upto == IF skip + limit < Len(sorted) THEN skip + limit ELSE Len(sorted)
        data == SubSeq(sorted, skip + 1, upto)
        total == Cardinality(matching)
        pages == ceilDiv(total, limit)
    IN [data |-> data, page |-> page, limit |-> limit, total |-> total,
        pages |-> pages, hasNext |-> page < pages, hasPrev |-> page > 1]

\* { $regex: search, $options: 'i' } on a plain text: a substring test
includesIgnoreCase(text, search) ==
    LET t == toUpperCase(text)
        w == toUpperCase(search)
    IN \E i \in 0..(Len(t) - Len(w)) : SubSeq(t, i + 1, i + Len(w)) = w

\* mutant: the filter does not start from { isActive: true }
searchFilter_anyState(p, query) ==
    /\ (query.search # None /\ Get(query.search) # <<>>)
          => includesIgnoreCase(p.sku, Get(query.search))
    /\ query.minPrice # None => p.price >= Get(query.minPrice)
    /\ query.maxPrice # None => p.price <= Get(query.maxPrice)
    /\ query.inStock # None =>
          IF Get(query.inStock) THEN p.quantity > 0 ELSE p.quantity = 0

\* the filter searchProducts builds from the query
searchFilter(p, query) ==
    /\ p.isActive
    /\ (query.search # None /\ Get(query.search) # <<>>)
          => includesIgnoreCase(p.sku, Get(query.search))
    /\ query.minPrice # None => p.price >= Get(query.minPrice)
    /\ query.maxPrice # None => p.price <= Get(query.maxPrice)
    /\ query.inStock # None =>
          IF Get(query.inStock) THEN p.quantity > 0 ELSE p.quantity = 0

searchProducts(s, query) ==
    findWithPagination({i \in 1..Len(s) : searchFilter(s[i], query)},
                       query.page, query.limit, query.sortOrder)

\* a stored userId is an ObjectId; the userId of a caller is the text of one.
\* A query filter is cast by the schema, an aggregation pipeline is not, and
\* a text never equals an ObjectId
bsonString(x) == [type |-> "string", value |-> x]

bsonObjectId(x) == [type |-> "objectId", value |-> x]

castFilter(userId) == bsonObjectId(userId)

\* aggregate([{ $match: matchConditions }, ...]): matchConditions.userId is
\* the text handed in
findLowStock(s, userId) ==
    ascending({i \in 1..Len(s) :
                 /\ s[i].isActive
                 /\ userId # NoScope => bsonObjectId(s[i].userId) = bsonString(userId)
                 /\ s[i].quantity <= s[i].minStockLevel})

\* countDocuments(filter) for the filters getInventoryStats builds
count(s, userId, zeroOnly) ==
    Cardinality({i \in 1..Len(s) :
                   /\ s[i].isActive
                   /\ userId # NoScope => bsonObjectId(s[i].userId) = castFilter(userId)
                   /\ zeroOnly => s[i].quantity = 0})

RECURSIVE sumValue(_, _)
sumValue(s, ids) ==
    IF ids = {} THEN 0
    ELSE LET i == CHOOSE x \in ids : TRUE
         IN s[i].price * s[i].quantity + sumValue(s, ids \ {i})

getTotalValue(s, userId) ==
    sumValue(s, {i \in 1..Len(s) :
                   /\ s[i].isActive
                   /\ userId # NoScope => bsonObjectId(s[i].userId) = bsonString(userId)})

(* ------------------------------ service -------------------------------- *)
\* { ...productData, userId, images }: the userId of the caller comes after
\* the spread and replaces one the data carries
createInput(userId, productData) ==
    [sku |-> productData.sku,
     price |-> productData.price,
     quantity |-> productData.quantity,
     minStockLevel |-> productData.minStockLevel,
     images |-> IF productData.images = None THEN <<>> ELSE Get(productData.images),
     userId |-> userId]

createProduct(s, userId, productData) ==
    IF findBySku(s, productData.sku) # NullId
    THEN Fail("DuplicateSKU", s)
    ELSE create(s, createInput(userId, productData))

\* mutant: a soft-deleted product is still found
getProductById_inactiveToo(s, productId, userId) ==
    LET product == findById(s, productId)
    IN IF product = NullId THEN NullId
       ELSE IF userId # NoScope /\ s[product].userId # userId THEN NullId
       ELSE product

\* mutant: the owner of the product is not compared with the scope
getProductById_noOwnerCheck(s, productId, userId) ==
    LET product == findById(s, productId)
    IN IF product = NullId \/ ~s[product].isActive THEN NullId ELSE product

\* the id of the product returned, NullId for null
getProductById(s, productId, userId) ==
    LET product == findById(s, productId)
    IN IF product = NullId \/ ~s[product].isActive THEN NullId
       ELSE IF userId # NoScope /\ s[product].userId # userId THEN NullId
       ELSE product

\* mutant: the patch is applied without the duplicate check
updateProduct_noSkuCheck(s, productId, userId, updateData) ==
    IF getProductById(s, productId, userId) = NullId
    THEN Fail("NotFoundOrForbidden", s)
    ELSE LET r == update(s, productId, updateData)
         IN [err |-> r.err, store |-> r.store]

updateProduct(s, productId, userId, updateData) ==
    IF getProductById(s, productId, userId) = NullId
    THEN Fail("NotFoundOrForbidden", s)
    ELSE IF /\ updateData.sku # None
            /\ Get(updateData.sku) # <<>>
            /\ Get(updateData.sku) # s[productId].sku
            /\ findBySku(s, Get(updateData.sku)) # NullId
    THEN Fail("DuplicateSKU", s)
    ELSE LET r == update(s, productId, updateData)
         IN [err |-> r.err, store |-> r.store]

\* mutant: the delete also clears the stock
deleteProduct_resetStock(s, productId, userId) ==
    IF getProductById(s, productId, userId) = NullId
    THEN Fail("NotFoundOrForbidden", s)
    ELSE LET r == update(s, productId,
                         [NoPatch EXCEPT !.isActive = Some(FALSE), !.quantity = Some(0)])
         IN [err |-> r.err, store |-> r.store, val |-> r.val # NullId]

deleteProduct(s, productId, userId) ==
    IF getProductById(s, productId, userId) = NullId
    THEN Fail("NotFoundOrForbidden", s)
    ELSE LET r == update(s, productId, [NoPatch EXCEPT !.isActive = Some(FALSE)])
         IN [err |-> r.err, store |-> r.store, val |-> r.val # NullId]

\* mutant: the product is looked up before the quantity is checked
updateStock_lookupFirst(s, productId, quantity, userId) ==
    IF getProductById(s, productId, userId) = NullId
    THEN Fail("NotFoundOrForbidden", s)
    ELSE IF quantity < 0 THEN Fail("NegativeQuantity", s)
    ELSE LET r == repoUpdateStock(s, productId, quantity)
         IN [err |-> r.err, store |-> r.store]

updateStock(s, productId, quantity, userId) ==
    IF quantity < 0 THEN Fail("NegativeQuantity", s)
    ELSE IF getProductById(s, productId, userId) = NullId
    THEN Fail("NotFoundOrForbidden", s)
    ELSE LET r == repoUpdateStock(s, productId, quantity)
         IN [err |-> r.err, store |-> r.store]

\* mutant: the new quantity is handed on unchecked
adjustStock_unchecked(s, productId, adjustment, userId) ==
    IF getProductById(s, productId, userId) = NullId
    THEN Fail("NotFoundOrForbidden", s)
    ELSE updateStock(s, productId, s[productId].quantity + adjustment, userId)

adjustStock(s, productId, adjustment, userId) ==
    IF getProductById(s, productId, userId) = NullId
    THEN Fail("NotFoundOrForbidden", s)
    ELSE LET newQuantity == s[productId].quantity + adjustment
         IN IF newQuantity < 0 THEN Fail("InsufficientStock", s)
            ELSE updateStock(s, productId, newQuantity, userId)

\* mutant: the entries after a failing one are still applied
RECURSIVE bulkUpdateStock_continue(_, _, _)
bulkUpdateStock_continue(s, updates, userId) ==
    IF updates = <<>> THEN Ok(s)
    ELSE LET r == updateStock(s, Head(updates).productId, Head(updates).quantity, userId)
             rest == bulkUpdateStock_continue(r.store, Tail(updates), userId)
         IN IF r.err # "OK" THEN [err |-> r.err, store |-> rest.store] ELSE rest

RECURSIVE bulkUpdateStock(_, _, _)
bulkUpdateStock(s, updates, userId) ==
    IF updates = <<>> THEN Ok(s)
    ELSE LET r == updateStock(s, Head(updates).productId, Head(updates).quantity, userId)
         IN IF r.err # "OK" THEN r
            ELSE bulkUpdateStock(r.store, Tail(updates), userId)

getInventoryStats(s, userId) ==
    [totalProducts |-> count(s, userId, FALSE),
     totalValue |-> getTotalValue(s, userId),
     lowStockCount |-> Len(findLowStock(s, userId)),
     outOfStockCount |-> count(s, userId, TRUE)]

(* ------------------------------ controller ----------------------------- *)
\* userRole === UserRole.ADMIN ? undefined : userId   (and ? '' : userId)
ownerUserId(caller) == IF UserRole[caller] = "admin" THEN NoScope ELSE caller

ctlGetProductById(s, caller, id) == getProductById(s, id, ownerUserId(caller))

\* getAllProducts and searchProducts hand the query on without a scope
ctlGetAllProducts(s, caller, query) == searchProducts(s, query)

ctlSearchProducts(s, caller, query) == searchProducts(s, query)

ctlGetLowStockProducts(s, caller) == findLowStock(s, ownerUserId(caller))

ctlGetInventoryStats(s, caller) == getInventoryStats(s, ownerUserId(caller))

(* ------------------------------ error handler -------------------------- *)
\* what the services throw: new Error(message), with no statusCode; the
\* store's validators throw an error named ValidationError
thrown(err) ==
    [name |-> IF err = "ValidationError" THEN "ValidationError" ELSE "Error",
     message |-> err, statusCode |-> None]

\* ErrorHandler.handle: the status of the response for an error
handle(error) ==
    LET statusCode == IF error.statusCode = None THEN 500 ELSE Get(error.statusCode)
    IN IF error.name = "ValidationError" THEN 400
       ELSE IF error.name = "CastError" THEN 400
       ELSE IF error.name = "MongoServerError" /\ error.message = "duplicate key" THEN 409
       ELSE IF error.name = "JsonWebTokenError" THEN 401
       ELSE IF error.name = "TokenExpiredError" THEN 401
       ELSE statusCode

\* the status a product route answers with: the controller's on success (and
\* for a null of getProductById), the error handler's on a thrown error
responseStatus(call) ==
    IF call.err = "OK" THEN (IF call.op = "createProduct" THEN 201 ELSE 200)
    ELSE IF call.op = "getProductById" THEN 404
    ELSE handle(thrown(call.err))

(* ------------------------------ state machine -------------------------- *)
\* the caller is no admin and id is an active product of another user
Foreign(s, caller, id) ==
    /\ UserRole[caller] # "admin"
    /\ findById(s, id) # NullId
    /\ s[id].isActive
    /\ s[id].userId # caller

\* last: the request being answered (who asked what of which id, and the
\* outcome), NoCall between two requests
NoCall == [op |-> "none", err |-> "OK", caller |-> NoScope, id |-> NullId]

Call(op, err, caller, id) == [op |-> op, err |-> err, caller |-> caller, id |-> id]

Idle == last = NoCall

\* no query string is being parsed, and no auth call is being answered
NoRequest == [op |-> "none"]

NoReply == [op |-> "none"]

\* no calls are running side by side
NoProcs == <<>>

Init ==
    /\ store = <<>>
    /\ last = NoCall
    /\ pg = <<>>
    /\ req = NoRequest
    /\ users = <<>>
    /\ now = 0
    /\ reply = NoReply
    /\ procs = NoProcs

\* request bodies: at most one of the numbers is invalid; a body can name an
\* owner of its own
ProductData ==
    { d \in [sku : SkuInputs, price : -1..MaxPrice, quantity : -1..MaxQty,
             minStockLevel : -1..MaxMinStock, images : ImageInputs, userId : {None}] :
        Cardinality({f \in {"price", "quantity", "minStockLevel"} : d[f] < 0}) <= 1 }
    \cup [sku : SkuInputs, price : {MaxPrice}, quantity : {MaxQty},
          minStockLevel : {0}, images : {None}, userId : {Some(o) : o \in Creators}]

Opt(S) == {None} \cup {Some(v) : v \in S}

Patch(f, v) == [NoPatch EXCEPT ![f] = Some(v)]

\* patches of one field, and patches of a price together with a quantity
UpdateData ==
    {Patch("sku", k) : k \in SkuInputs}
    \cup {Patch("price", v) : v \in -1..MaxPrice}
    \cup {Patch("quantity", v) : v \in -1..MaxQty}
    \cup {Patch("minStockLevel", v) : v \in -1..MaxMinStock}
    \cup {Patch("isActive", b) : b \in BOOLEAN}
    \cup {Patch("userId", o) : o \in Creators}
    \cup {[Patch("price", v) EXCEPT !.quantity = Some(w)] :
            v \in {-1, MaxPrice}, w \in {-1, MaxQty}}

StockUpdates == [productId : ProductIds, quantity : {-1, MaxQty}]

RECURSIVE SeqsUpTo(_, _)
SeqsUpTo(S, n) ==
    IF n = 0 THEN {<<>>}
    ELSE LET shorter == SeqsUpTo(S, n - 1)
         IN shorter \cup {Append(q, x) : q \in shorter, x \in S}

BulkUpdates == SeqsUpTo(StockUpdates, MaxBulk) \ {<<>>}

\* queries: a text, a price range, a stock filter, a page of a size
ProductQueries ==
    [search : {None, Some(<<"x">>)}, minPrice : {None, Some(MaxPrice)},
     maxPrice : {None, Some(0)}, inStock : Opt(BOOLEAN),
     page : 1..MaxPage, limit : 1..MaxLimit, sortOrder : {"asc", "desc"}]

Adjustments == (0 - MaxQty - 1)..MaxQty

CreateProduct(caller, productData) ==
    /\ Idle
    /\ Len(store) < MaxProducts
    /\ LET r == createProduct(store, caller, productData)
       IN /\ store' = r.store
          /\ last' = Call("createProduct", r.err, caller,
                          IF r.err = "OK" THEN Len(r.store) ELSE NullId)
    /\ UNCHANGED <<procs, pg, req, authVars>>

UpdateProduct(caller, id, updateData) ==
    /\ Idle
    /\ LET r == updateProduct(store, id, ownerUserId(caller), updateData)
       IN /\ store' = r.store
          /\ last' = Call("updateProduct", r.err, caller, id)
    /\ UNCHANGED <<procs, pg, req, authVars>>

DeleteProduct(caller, id) ==
    /\ Idle
    /\ LET r == deleteProduct(store, id, ownerUserId(caller))
       IN /\ store' = r.store
          /\ last' = Call("deleteProduct", r.err, caller, id)
    /\ UNCHANGED <<procs, pg, req, authVars>>

UpdateStock(caller, id, quantity) ==
    /\ Idle
    /\ LET r == updateStock(store, id, quantity, ownerUserId(caller))
       IN /\ store' = r.store
          /\ last' = Call("updateStock", r.err, caller, id)
    /\ UNCHANGED <<procs, pg, req, authVars>>

AdjustStock(caller, id, adjustment) ==
    /\ Idle
    /\ LET r == adjustStock(store, id, adjustment, ownerUserId(caller))
       IN /\ \A i \in 1..Len(r.store) : r.store[i].quantity <= MaxQty
          /\ store' = r.store
          /\ last' = Call("adjustStock", r.err, caller, id)
    /\ UNCHANGED <<procs, pg, req, authVars>>

BulkUpdateStock(caller, updates) ==
    /\ Idle
    /\ LET r == bulkUpdateStock(store, updates, ownerUserId(caller))
       IN /\ store' = r.store
          /\ last' = Call("bulkUpdateStock", r.err, caller, Head(updates).productId)
    /\ UNCHANGED <<procs, pg, req, authVars>>

GetProductById(caller, id) ==
    /\ Idle
    /\ last' = Call("getProductById",
                    IF ctlGetProductById(store, caller, id) = NullId
                    THEN "NotFound" ELSE "OK",
                    caller, id)
    /\ UNCHANGED <<procs, store, pg, req, authVars>>

\* res.status(...).json(response): the request is over
Respond ==
    /\ ~Idle
    /\ last' = NoCall
    /\ UNCHANGED <<procs, store, pg, req, authVars>>

Next ==
    \/ \E c \in Creators, d \in ProductData : CreateProduct(c, d)
    \/ \E c \in Users, id \in ProductIds, u \in UpdateData : UpdateProduct(c, id, u)
    \/ \E c \in Users, id \in ProductIds : DeleteProduct(c, id)
    \/ \E c \in Users, id \in ProductIds, q \in -1..MaxQty : UpdateStock(c, id, q)
    \/ \E c \in Users, id \in ProductIds, a \in Adjustments : AdjustStock(c, id, a)
    \/ \E c \in Users, u \in BulkUpdates : BulkUpdateStock(c, u)
    \/ \E c \in Users, id \in ProductIds : GetProductById(c, id)
    \/ Respond

Spec == Init /\ [][Next]_vars

(* ------------------- findWithPagination on its own ---------------------- *)
\* pg: the number of matching records, and the last page that was read
InitPage ==
    /\ store = <<>>
    /\ last = NoCall
    /\ \E n \in 0..MaxRecords : pg = [n |-> n, read |-> FALSE]
    /\ req = NoRequest
    /\ users = <<>>
    /\ now = 0
    /\ reply = NoReply
    /\ procs = NoProcs

FindWithPagination(page, limit, sortOrder) ==
    /\ pg' = [n |-> pg.n, read |-> TRUE, sortOrder |-> sortOrder,
              res |-> findWithPagination(1..pg.n, page, limit, sortOrder)]
    /\ UNCHANGED <<procs, store, last, req, authVars>>

NextPage ==
    \E page \in 1..MaxPage, limit \in 1..MaxLimit, o \in {"asc", "desc"} :
        FindWithPagination(page, limit, o)

SpecPage == InitPage /\ [][NextPage]_vars

(* ------------------------------ auth: users ----------------------------- *)
UserIds == 1..(MaxUsers + 1)

\* the addresses and passwords of the requests
EmailInputs == {<<"a">>, <<"A">>, <<"b">>}

Passwords == {"p1", "p2"}

toLowerCaseChar(c) ==
    CASE c = "A" -> "a"
      [] c = "B" -> "b"
      [] OTHER -> c

toLowerCase(s) == [i \in 1..Len(s) |-> toLowerCaseChar(s[i])]

\* the store layer keeps a hash of the password, never the password
hashPassword(password) == <<"hash", password>>

comparePassword(user, candidatePassword) ==
    user.password = hashPassword(candidatePassword)

\* new this.model(data).save() on the user schema: the email is stored
\* lowercased, the password hashed, the account active, no login recorded yet
userCreate(us, data) ==
    Append(us, [email |-> toLowerCase(data.email),
                password |-> hashPassword(data.password),
                firstName |-> data.firstName,
                lastName |-> data.lastName,
                role |-> data.role,
                isActive |-> TRUE,
                profileImage |-> None,
                lastLoginAt |-> None])

userFindById(us, id) == IF id \in 1..Len(us) THEN id ELSE NullId

\* model.findOne({ email: email.toLowerCase() })
findByEmail(us, email) ==
    LET hits == {i \in 1..Len(us) : us[i].email = toLowerCase(email)}
    IN IF hits = {} THEN NullId ELSE CHOOSE i \in hits : \A j \in hits : i <= j

findByEmailWithPassword(us, email) == findByEmail(us, email)

\* findByIdAndUpdate(id, data, { new: true, runValidators: true }): the
\* fields of data replace those of the user
userUpdate(us, id, data) ==
    IF userFindById(us, id) = NullId THEN us
    ELSE [us EXCEPT ![id] =
            [f \in DOMAIN @ |-> IF f \in DOMAIN data THEN data[f] ELSE @[f]]]

\* findByIdAndUpdate(userId, { lastLoginAt: new Date() })
updateLastLogin(us, id, t) == userUpdate(us, id, [lastLoginAt |-> Some(t)])

deactivateUser(us, id) == userUpdate(us, id, [isActive |-> FALSE])

activateUser(us, id) == userUpdate(us, id, [isActive |-> TRUE])

(* ------------------------------ auth: tokens ---------------------------- *)
\* process.env.JWT_SECRET || 'default-secret-key'
jwtSecret == "default-secret-key"

\* process.env.JWT_EXPIRES_IN || '7d', in ticks of the clock
jwtExpiresIn == 1

\* jwt.sign(payload, secret, { expiresIn }): the signature covers the payload
\* and the two timestamps
jwtSign(payload, secret, t) ==
    [payload |-> payload, iat |-> t, exp |-> t + jwtExpiresIn,
     sig |-> [payload |-> payload, iat |-> t, exp |-> t + jwtExpiresIn,
              key |-> secret]]

\* jwt.verify(token, secret): the signature first, then the expiry
jwtVerify(token, secret, t) ==
    IF token.sig # [payload |-> token.payload, iat |-> token.iat,
                    exp |-> token.exp, key |-> secret]
    THEN [err |-> "JsonWebTokenError"]
    ELSE IF t >= token.exp THEN [err |-> "TokenExpiredError"]
    ELSE [err |-> "OK",
          decoded |-> [userId |-> token.payload.userId,
                       email |-> token.payload.email,
                       role |-> token.payload.role,
                       iat |-> token.iat, exp |-> token.exp]]

(* ------------------------------ auth: service --------------------------- *)
\* an answer of the service: the message of the Error thrown ("OK" for none),
\* the users after the call, the user and the token returned if any
AuthFail(message, us) ==
    [err |-> message, users |-> us, userId |-> NullId, user |-> None, token |-> None]

AuthOk(us, id, user, token) ==
    [err |-> "OK", users |-> us, userId |-> id, user |-> user, token |-> token]

generateToken(user, id, t) ==
    jwtSign([userId |-> id, email |-> user.email, role |-> user.role], jwtSecret, t)

\* user.toObject() without the password
sanitizeUser(user) == [f \in DOMAIN user \ {"password"} |-> user[f]]

\* mutant: the address is not looked up first
register_noLookup(us, userData, t) ==
    LET created == userCreate(us, [email |-> userData.email,
                                   password |-> userData.password,
                                   firstName |-> userData.firstName,
                                   lastName |-> userData.lastName,
                                   role |-> IF userData.role \in {None, Some("")}
                                            THEN "user" ELSE Get(userData.role)])
        id == Len(created)
    IN AuthOk(created, id, Some(sanitizeUser(created[id])),
              Some(generateToken(created[id], id, t)))

register(us, userData, t) ==
    IF findByEmail(us, userData.email) # NullId
    THEN AuthFail("User already exists with this email", us)
    ELSE LET created == userCreate(us, [email |-> userData.email,
                                        password |-> userData.password,
                                        firstName |-> userData.firstName,
                                        lastName |-> userData.lastName,
                                        role |-> IF userData.role \in {None, Some("")}
                                                 THEN "user" ELSE Get(userData.role)])
             id == Len(created)
         IN AuthOk(created, id, Some(sanitizeUser(created[id])),
                   Some(generateToken(created[id], id, t)))

\* mutant: the password is not compared
login_anyPassword(us, credentials, t) ==
    LET id == findByEmailWithPassword(us, credentials.email)
    IN IF id = NullId THEN AuthFail("Invalid email or password", us)
       ELSE IF ~us[id].isActive
       THEN AuthFail("Account is deactivated. Please contact support", us)
       ELSE AuthOk(updateLastLogin(us, id, t), id, Some(sanitizeUser(us[id])),
                   Some(generateToken(us[id], id, t)))

login(us, credentials, t) ==
    LET id == findByEmailWithPassword(us, credentials.email)
    IN IF id = NullId THEN AuthFail("Invalid email or password", us)
       ELSE IF ~us[id].isActive
       THEN AuthFail("Account is deactivated. Please contact support", us)
       ELSE IF ~comparePassword(us[id], credentials.password)
       THEN AuthFail("Invalid email or password", us)
       ELSE AuthOk(updateLastLogin(us, id, t), id, Some(sanitizeUser(us[id])),
                   Some(generateToken(us[id], id, t)))

\* mutant: a deactivated user is still returned
getCurrentUser_inactiveToo(us, userId) == userFindById(us, userId)

\* the id of the user returned, NullId for null
getCurrentUser(us, userId) ==
    LET id == userFindById(us, userId)
    IN IF id = NullId \/ ~us[id].isActive THEN NullId ELSE id

refreshToken(us, userId, t) ==
    LET id == userFindById(us, userId)
    IN IF id = NullId \/ ~us[id].isActive
       THEN AuthFail("User not found or inactive", us)
       ELSE AuthOk(us, id, None, Some(generateToken(us[id], id, t)))

\* the catch block throws one Error for every failure of jwt.verify
verifyToken(token, t) ==
    LET r == jwtVerify(token, jwtSecret, t)
    IN IF r.err # "OK" THEN [err |-> "Invalid or expired token"]
       ELSE [err |-> "OK", decoded |-> r.decoded]

\* the user whose password is compared is the one whose email is ''; the
\* store layer hashes the password it is given
changePassword(us, userId, currentPassword, newPassword) ==
    LET id == findByEmailWithPassword(us, <<>>)
    IN IF id = NullId THEN AuthFail("User not found", us)
       ELSE IF ~comparePassword(us[id], currentPassword)
       THEN AuthFail("Current password is incorrect", us)
       ELSE AuthOk(userUpdate(us, userId, [password |-> hashPassword(newPassword)]),
                   userId, None, None)

allowedFields == {"firstName", "lastName", "profileImage"}

\* mutant: every field of the input is handed to the store
updateProfile_unfiltered(us, userId, profileData) ==
    AuthOk(userUpdate(us, userId, profileData), userFindById(us, userId), None, None)

\* profileData is a record of the fields present in the request
updateProfile(us, userId, profileData) ==
    LET filteredData == [f \in allowedFields \cap DOMAIN profileData |-> profileData[f]]
    IN AuthOk(userUpdate(us, userId, filteredData), userFindById(us, userId), None, None)

(* ------------------------------ auth: state machine --------------------- *)
\* reply: the auth call being answered, NoReply between two calls
AuthIdle == reply = NoReply

Reply(op, r, arg) ==
    [op |-> op, err |-> r.err, userId |-> r.userId, user |-> r.user,
     token |-> r.token, arg |-> arg]

RegisterRequests ==
    [email : EmailInputs, password : Passwords, firstName : {"F"}, lastName : {"L"},
     role : {None, Some("admin")}]

LoginRequests == [email : EmailInputs, password : Passwords]

\* a request body of updateProfile: some of the three profile fields, alone
\* or with fields that are not the profile's
ProfileFields ==
    [firstName |-> "G", lastName |-> "M", profileImage |-> Some("img"),
     email |-> <<"z">>, password |-> "p9", role |-> "admin", isActive |-> FALSE]

ProfileData ==
    { [f \in A \cup B |-> ProfileFields[f]] :
        A \in SUBSET allowedFields,
        B \in {{}, DOMAIN ProfileFields \ allowedFields} }

\* the tokens a client can present: those issued to a user up to now, and
\* those with a changed role, a later expiry or a signature of another key
IssuedTokens(us, t) == {generateToken(us[i], i, iat) : i \in 1..Len(us), iat \in 0..t}

TamperedTokens(us, t) ==
    {[tok EXCEPT !.payload.role = "admin"] : tok \in IssuedTokens(us, t)}
    \cup {[tok EXCEPT !.exp = @ + 1] : tok \in IssuedTokens(us, t)}
    \cup {jwtSign(tok.payload, "another-key", tok.iat) : tok \in IssuedTokens(us, t)}

Tokens(us, t) == IssuedTokens(us, t) \cup TamperedTokens(us, t)

Register(userData) ==
    /\ AuthIdle
    /\ LET r == register(users, userData, now)
       IN /\ Len(r.users) <= MaxUsers
          /\ users' = r.users
          /\ reply' = Reply("register", r, userData)
    /\ UNCHANGED <<procs, store, last, pg, req, now>>

Login(credentials) ==
    /\ AuthIdle
    /\ LET r == login(users, credentials, now)
       IN /\ users' = r.users
          /\ reply' = Reply("login", r, credentials)
    /\ UNCHANGED <<procs, store, last, pg, req, now>>

GetCurrentUser(userId) ==
    /\ AuthIdle
    /\ LET id == getCurrentUser(users, userId)
       IN reply' = [op |-> "getCurrentUser", err |-> "OK", userId |-> id,
                    user |-> IF id = NullId THEN None ELSE Some(users[id]),
                    token |-> None, arg |-> userId]
    /\ UNCHANGED <<procs, store, last, pg, req, users, now>>

RefreshToken(userId) ==
    /\ AuthIdle
    /\ LET r == refreshToken(users, userId, now)
       IN /\ users' = r.users
          /\ reply' = Reply("refreshToken", r, userId)
    /\ UNCHANGED <<procs, store, last, pg, req, now>>

VerifyToken(token) ==
    /\ AuthIdle
    /\ reply' = [op |-> "verifyToken", arg |-> token] @@ verifyToken(token, now)
    /\ UNCHANGED <<procs, store, last, pg, req, users, now>>

ChangePassword(userId, currentPassword, newPassword) ==
    /\ AuthIdle
    /\ LET r == changePassword(users, userId, currentPassword, newPassword)
       IN /\ users' = r.users
          /\ reply' = Reply("changePassword", r,
                            [userId |-> userId, currentPassword |-> currentPassword,
                             newPassword |-> newPassword])
    /\ UNCHANGED <<procs, store, last, pg, req, now>>

UpdateProfile(userId, profileData) ==
    /\ AuthIdle
    /\ LET r == updateProfile(users, userId, profileData)
       IN /\ users' = r.users
          /\ reply' = Reply("updateProfile", r,
                            [userId |-> userId, profileData |-> profileData])
    /\ UNCHANGED <<procs, store, last, pg, req, now>>

\* an administrator switches an account off, or on again
DeactivateUser(userId) ==
    /\ AuthIdle
    /\ userFindById(users, userId) # NullId
    /\ users[userId].isActive
    /\ users' = deactivateUser(users, userId)
    /\ UNCHANGED <<procs, store, last, pg, req, now, reply>>

ActivateUser(userId) ==
    /\ AuthIdle
    /\ userFindById(users, userId) # NullId
    /\ ~users[userId].isActive
    /\ users' = activateUser(users, userId)
    /\ UNCHANGED <<procs, store, last, pg, req, now, reply>>

\* time passes
Tick ==
    /\ AuthIdle
    /\ now < MaxTime
    /\ now' = now + 1
    /\ UNCHANGED <<procs, store, last, pg, req, users, reply>>

\* the answer has been sent
AuthRespond ==
    /\ ~AuthIdle
    /\ reply' = NoReply
    /\ UNCHANGED <<procs, store, last, pg, req, users, now>>

NextAuth ==
    \/ \E d \in RegisterRequests : Register(d)
    \/ \E c \in LoginRequests : Login(c)
    \/ \E id \in UserIds : GetCurrentUser(id)
    \/ \E id \in UserIds : RefreshToken(id)
    \/ \E tok \in Tokens(users, now) : VerifyToken(tok)
    \/ \E id \in UserIds, cur \in Passwords, new \in Passwords :
          ChangePassword(id, cur, new)
    \/ \E id \in UserIds : DeactivateUser(id)
    \/ \E id \in UserIds : ActivateUser(id)
    \/ Tick
    \/ AuthRespond

SpecAuth == Init /\ [][NextAuth]_vars

\* the profile path on its own: registrations and profile updates
NextProfile ==
    \/ \E d \in RegisterRequests : Register(d)
    \/ \E id \in UserIds, d \in ProfileData : UpdateProfile(id, d)
    \/ \E id \in UserIds : DeactivateUser(id)
    \/ AuthRespond

SpecProfile == Init /\ [][NextProfile]_vars

(* ------------------------------ access boundary ------------------------- *)
\* an Authorization header is a text made of words and blanks; the word
\* "<token>" stands for the text of the token the request carries
RECURSIVE split(_, _)
split(s, separator) ==
    LET at == {k \in 1..Len(s) : s[k] = separator}
    IN IF at = {} THEN <<s>>
       ELSE LET k == CHOOSE n \in at : \A m \in at : n <= m
            IN <<SubSeq(s, 1, k - 1)>> \o split(SubSeq(s, k + 1, Len(s)), separator)

\* the second part of 'Bearer <token>', null (None) for any other shape
extractToken(request) ==
    IF request.authorization = None THEN None
    ELSE LET parts == split(Get(request.authorization), " ")
         IN IF Len(parts) # 2 \/ parts[1] # <<"Bearer">> THEN None
            ELSE Some(parts[2])

Unauthorized(message) ==
    [status |-> 401, next |-> FALSE, message |-> message, user |-> None]

\* mutant: the user of the token is not looked up
authenticate_noUserCheck(us, request, t) ==
    LET token == extractToken(request)
    IN IF token = None \/ Get(token) = <<>>
       THEN Unauthorized("Access token is required")
       ELSE IF Get(token) # <<"<token>">>
       THEN Unauthorized("Invalid or expired token")
       ELSE LET decoded == verifyToken(request.token, t)
            IN IF decoded.err # "OK" THEN Unauthorized("Invalid or expired token")
               ELSE [status |-> 200, next |-> TRUE, message |-> "",
                     user |-> Some(decoded.decoded)]

\* AuthMiddleware.authenticate: 401, or req.user = decoded and next()
authenticate(us, request, t) ==
    LET token == extractToken(request)
    IN IF token = None \/ Get(token) = <<>>
       THEN Unauthorized("Access token is required")
       ELSE IF Get(token) # <<"<token>">>
       THEN Unauthorized("Invalid or expired token")
       ELSE LET decoded == verifyToken(request.token, t)
            IN IF decoded.err # "OK" THEN Unauthorized("Invalid or expired token")
               ELSE IF getCurrentUser(us, decoded.decoded.userId) = NullId
               THEN Unauthorized("User not found or inactive")
               ELSE [status |-> 200, next |-> TRUE, message |-> "",
                     user |-> Some(decoded.decoded)]

Headers ==
    { None,
      Some(<<"Bearer", " ", "<token>">>),
      Some(<<"Bearer", "<token>">>),
      Some(<<"Basic", " ", "<token>">>),
      Some(<<"Bearer", " ", "<token>", " ", "x">>),
      Some(<<"Bearer", " ">>),
      Some(<<"Bearer", " ", "x">>) }

\* a token nobody was issued
ForgedToken ==
    jwtSign([userId |-> 1, email |-> <<"a">>, role |-> "admin"], "another-key", 0)

Requests(us, t) ==
    [authorization : Headers, token : Tokens(us, t) \cup {ForgedToken}]

Authenticate(request) ==
    /\ AuthIdle
    /\ LET r == authenticate(users, request, now)
       IN reply' = [op |-> "authenticate", status |-> r.status, next |-> r.next,
                    user |-> r.user, arg |-> request]
    /\ UNCHANGED <<procs, store, last, pg, req, users, now>>

\* the routes behind authMiddleware.authenticate, with the accounts registered,
\* switched off and on, and time passing
NextBoundary ==
    \/ \E d \in RegisterRequests : Register(d)
    \/ \E id \in UserIds : DeactivateUser(id)
    \/ \E id \in UserIds : ActivateUser(id)
    \/ Tick
    \/ \E request \in Requests(users, now) : Authenticate(request)
    \/ AuthRespond

SpecBoundary == Init /\ [][NextBoundary]_vars

(* ------------------------- calls running side by side ------------------- *)
\* procs: the calls of a scenario in the order they began, each with the
\* store call it awaits next (pc); a call that has returned stays in the list
\* with pc "done".  One step is one store call together with the code that
\* runs up to the next await.
MaxCalls == 3

RaceCallers == {"alice", "root"}

RaceIds == 1..(MaxCalls - 1)

\* valid request bodies, two spellings of one SKU
RaceData ==
    [sku : {<<"a">>, <<"A">>}, price : {MaxPrice}, quantity : 0..MaxQty,
     minStockLevel : {0}, images : {None}, userId : {None}]

NoData == [sku |-> <<>>]

NoStats ==
    [totalProducts |-> None, totalValue |-> None,
     lowStockCount |-> None, outOfStockCount |-> None]

\* a call at its first await.  userId: the scope the controller hands in;
\* n: the adjustment; quantity: the quantity updateStock is asked to write;
\* product: what the lookup of the call returned (NullId for null) when seen
\* documents were stored
Begin(op, pc, userId, id, data, n, quantity) ==
    [op |-> op, pc |-> pc, userId |-> userId, id |-> id, data |-> data, n |-> n,
     quantity |-> quantity, product |-> NullId, seen |-> 0, stats |-> NoStats,
     err |-> "OK"]

Throw(p, err) == [p EXCEPT !.pc = "done", !.err = err]

Running(k, op, pc) ==
    /\ k \in 1..Len(procs)
    /\ procs[k].op \in op
    /\ procs[k].pc = pc

StartCreateProduct(caller, productData) ==
    /\ Len(procs) < MaxCalls
    /\ procs' = Append(procs, Begin("createProduct", "findBySku", caller, NullId,
                                    productData, 0, 0))
    /\ UNCHANGED <<store, last, pg, req, authVars>>

\* const existingProduct = await this.productRepository.findBySku(...)
CreateFindBySku(k) ==
    /\ Running(k, {"createProduct"}, "findBySku")
    /\ LET p == procs[k]
           existingProduct == findBySku(store, p.data.sku)
           q == [p EXCEPT !.product = existingProduct, !.seen = Len(store)]
       IN procs' = [procs EXCEPT ![k] =
                      IF existingProduct # NullId THEN Throw(q, "DuplicateSKU")
                      ELSE [q EXCEPT !.pc = "create"]]
    /\ UNCHANGED <<store, last, pg, req, authVars>>

\* const product = await this.productRepository.create({...})
CreateCreate(k) ==
    /\ Running(k, {"createProduct"}, "create")
    /\ LET p == procs[k]
           r == create(store, createInput(p.userId, p.data))
       IN /\ store' = r.store
          /\ procs' = [procs EXCEPT ![k] =
                         IF r.err # "OK" THEN Throw(p, r.err)
                         ELSE [p EXCEPT !.pc = "done", !.id = Len(r.store)]]
    /\ UNCHANGED <<last, pg, req, authVars>>

\* updateStock checks the quantity before its first await
enterUpdateStock(p, quantity) ==
    IF quantity < 0 THEN Throw(p, "NegativeQuantity")
    ELSE [p EXCEPT !.pc = "getProductById", !.quantity = quantity]

StartUpdateStock(caller, id, quantity) ==
    /\ Len(procs) < MaxCalls
    /\ procs' = Append(procs,
                       enterUpdateStock(Begin("updateStock", "getProductById",
                                              ownerUserId(caller), id, NoData, 0, 0),
                                        quantity))
    /\ UNCHANGED <<store, last, pg, req, authVars>>

StartAdjustStock(caller, id, adjustment) ==
    /\ Len(procs) < MaxCalls
    /\ procs' = Append(procs, Begin("adjustStock", "adjustStock", ownerUserId(caller),
                                    id, NoData, adjustment, 0))
    /\ UNCHANGED <<store, last, pg, req, authVars>>

\* adjustStock: const product = await this.getProductById(...), the new
\* quantity from what was read, and the call of updateStock
AdjustGetProductById(k) ==
    /\ Running(k, {"adjustStock"}, "adjustStock")
    /\ LET p == procs[k]
           product == getProductById(store, p.id, p.userId)
           q == [p EXCEPT !.product = product, !.seen = Len(store)]
       IN procs' = [procs EXCEPT ![k] =
                      IF product = NullId THEN Throw(q, "NotFoundOrForbidden")
                      ELSE LET newQuantity == store[product].quantity + p.n
                           IN IF newQuantity < 0 THEN Throw(q, "InsufficientStock")
                              ELSE enterUpdateStock(q, newQuantity)]
    /\ UNCHANGED <<store, last, pg, req, authVars>>

\* updateStock: const existingProduct = await this.getProductById(...)
StockGetProductById(k) ==
    /\ Running(k, {"updateStock", "adjustStock"}, "getProductById")
    /\ LET p == procs[k]
           existingProduct == getProductById(store, p.id, p.userId)
       IN procs' = [procs EXCEPT ![k] =
                      IF existingProduct = NullId THEN Throw(p, "NotFoundOrForbidden")
                      ELSE [p EXCEPT !.pc = "updateStock"]]
    /\ UNCHANGED <<store, last, pg, req, authVars>>

\* return await this.productRepository.updateStock(productId, quantity)
StockUpdateStock(k) ==
    /\ Running(k, {"updateStock", "adjustStock"}, "updateStock")
    /\ LET p == procs[k]
           r == repoUpdateStock(store, p.id, p.quantity)
       IN /\ store' = r.store
          /\ procs' = [procs EXCEPT ![k] = Throw(p, r.err)]
    /\ UNCHANGED <<last, pg, req, authVars>>

StartDeleteProduct(caller, id) ==
    /\ Len(procs) < MaxCalls
    /\ procs' = Append(procs, Begin("deleteProduct", "getProductById",
                                    ownerUserId(caller), id, NoData, 0, 0))
    /\ UNCHANGED <<store, last, pg, req, authVars>>

\* deleteProduct: const existingProduct = await this.getProductById(...)
DeleteGetProductById(k) ==
    /\ Running(k, {"deleteProduct"}, "getProductById")
    /\ LET p == procs[k]
           existingProduct == getProductById(store, p.id, p.userId)
       IN procs' = [procs EXCEPT ![k] =
                      IF existingProduct = NullId THEN Throw(p, "NotFoundOrForbidden")
                      ELSE [p EXCEPT !.pc = "update"]]
    /\ UNCHANGED <<store, last, pg, req, authVars>>

\* const result = await this.productRepository.update(id, { isActive: false })
DeleteUpdate(k) ==
    /\ Running(k, {"deleteProduct"}, "update")
    /\ LET p == procs[k]
           r == update(store, p.id, [NoPatch EXCEPT !.isActive = Some(FALSE)])
       IN /\ store' = r.store
          /\ procs' = [procs EXCEPT ![k] = Throw(p, r.err)]
    /\ UNCHANGED <<last, pg, req, authVars>>

StartGetInventoryStats(caller) ==
    /\ Len(procs) < MaxCalls
    /\ procs' = Append(procs, Begin("getInventoryStats", "Promise.all",
                                    ownerUserId(caller), NullId, NoData, 0, 0))
    /\ UNCHANGED <<store, last, pg, req, authVars>>

\* Promise.all([count(filter), getTotalValue(userId), findLowStock(userId)]):
\* the three reads are under way together and the store answers them in any
\* order
StatsRead(k, what) ==
    /\ Running(k, {"getInventoryStats"}, "Promise.all")
    /\ procs[k].stats[what] = None
    /\ LET p == procs[k]
           value == CASE what = "totalProducts" -> count(store, p.userId, FALSE)
                      [] what = "totalValue" -> getTotalValue(store, p.userId)
                      [] what = "lowStockCount" -> Len(findLowStock(store, p.userId))
       IN procs' = [procs EXCEPT ![k] = [p EXCEPT !.stats[what] = Some(value)]]
    /\ UNCHANGED <<store, last, pg, req, authVars>>

\* const outOfStockCount = await this.productRepository.count({...filter,
\* quantity: 0}), once the three reads are back
StatsCountOutOfStock(k) ==
    /\ Running(k, {"getInventoryStats"}, "Promise.all")
    /\ \A what \in {"totalProducts", "totalValue", "lowStockCount"} :
          procs[k].stats[what] # None
    /\ LET p == procs[k]
       IN procs' = [procs EXCEPT ![k] =
                      [p EXCEPT !.pc = "done",
                                !.stats.outOfStockCount =
                                    Some(count(store, p.userId, TRUE))]]
    /\ UNCHANGED <<store, last, pg, req, authVars>>

\* createProduct calls side by side
NextCreateRace ==
    \/ \E c \in Creators, d \in RaceData : StartCreateProduct(c, d)
    \/ \E k \in 1..MaxCalls : CreateFindBySku(k)
    \/ \E k \in 1..MaxCalls : CreateCreate(k)

SpecCreateRace == Init /\ [][NextCreateRace]_vars

\* stock writes and deletes side by side
NextStockRace ==
    \/ \E d \in RaceData : StartCreateProduct("alice", d)
    \/ \E k \in 1..MaxCalls : CreateFindBySku(k)
    \/ \E k \in 1..MaxCalls : CreateCreate(k)
    \/ \E c \in RaceCallers, id \in RaceIds, q \in -1..MaxQty : StartUpdateStock(c, id, q)
    \/ \E c \in RaceCallers, id \in RaceIds, a \in {-1, 1} : StartAdjustStock(c, id, a)
    \/ \E k \in 1..MaxCalls : AdjustGetProductById(k)
    \/ \E k \in 1..MaxCalls : StockGetProductById(k)
    \/ \E k \in 1..MaxCalls : StockUpdateStock(k)
    \/ \E c \in RaceCallers, id \in RaceIds : StartDeleteProduct(c, id)
    \/ \E k \in 1..MaxCalls : DeleteGetProductById(k)
    \/ \E k \in 1..MaxCalls : DeleteUpdate(k)

SpecStockRace == Init /\ [][NextStockRace]_vars

\* getInventoryStats next to the calls of other callers
NextStatsRace ==
    \/ \E d \in RaceData : StartCreateProduct("alice", d)
    \/ \E k \in 1..MaxCalls : CreateFindBySku(k)
    \/ \E k \in 1..MaxCalls : CreateCreate(k)
    \/ \E id \in RaceIds, q \in 0..MaxQty : StartUpdateStock("alice", id, q)
    \/ \E k \in 1..MaxCalls : StockGetProductById(k)
    \/ \E k \in 1..MaxCalls : StockUpdateStock(k)
    \/ \E id \in RaceIds : StartDeleteProduct("alice", id)
    \/ \E k \in 1..MaxCalls : DeleteGetProductById(k)
    \/ \E k \in 1..MaxCalls : DeleteUpdate(k)
    \/ \E c \in RaceCallers : StartGetInventoryStats(c)
    \/ \E k \in 1..MaxCalls, what \in {"totalProducts", "totalValue", "lowStockCount"} :
          StatsRead(k, what)
    \/ \E k \in 1..MaxCalls : StatsCountOutOfStock(k)

SpecStatsRace == Init /\ [][NextStatsRace]_vars

(* ------------------- the query string of a listing ---------------------- *)
\* a JavaScript number is a set with at most one integer; the empty one is NaN
NaN == {}

Num(n) == {n}

Digits == {"0", "1", "2", "3", "4", "5", "6", "7", "8", "9"}

digitValue(c) ==
    CASE c = "0" -> 0 [] c = "1" -> 1 [] c = "2" -> 2 [] c = "3" -> 3
      [] c = "4" -> 4 [] c = "5" -> 5 [] c = "6" -> 6 [] c = "7" -> 7
      [] c = "8" -> 8 [] c = "9" -> 9

isDigits(s) == s # <<>> /\ \A i \in 1..Len(s) : s[i] \in Digits

RECURSIVE decimal(_)
decimal(s) ==
    IF s = <<>> THEN 0
    ELSE 10 * decimal(SubSeq(s, 1, Len(s) - 1)) + digitValue(s[Len(s)])

\* Number(text) for a text that is blank, a signed integer literal, or
\* anything else (which gives NaN)
Number(s) ==
    LET t == trim(s)
    IN IF t = <<>> THEN Num(0)
       ELSE IF isDigits(t) THEN Num(decimal(t))
       ELSE IF Head(t) = "-" /\ isDigits(Tail(t)) THEN Num(0 - decimal(Tail(t)))
       ELSE IF Head(t) = "+" /\ isDigits(Tail(t)) THEN Num(decimal(Tail(t)))
       ELSE NaN

\* Math.max and Math.min give NaN as soon as an argument is NaN
MathMax(a, b) ==
    IF a = NaN \/ b = NaN THEN NaN
    ELSE IF Get(a) >= Get(b) THEN a ELSE b

MathMin(a, b) ==
    IF a = NaN \/ b = NaN THEN NaN
    ELSE IF Get(a) <= Get(b) THEN a ELSE b

\* a query parameter is absent (undefined) or a text; '' is falsy
truthy(raw) == raw # None /\ Get(raw) # <<>>

\* req.query.page ? Math.max(1, Number(req.query.page)) : 1
queryPage(raw) ==
    IF truthy(raw) THEN MathMax(Num(1), Number(Get(raw))) ELSE Num(1)

\* req.query.limit ? Math.min(100, Math.max(1, Number(req.query.limit))) : 10
queryLimit(raw) ==
    IF truthy(raw) THEN MathMin(Num(100), MathMax(Num(1), Number(Get(raw))))
    ELSE Num(10)

\* the page and the limit of the ProductQuery both handlers build
productQuery(rawPage, rawLimit) ==
    [page |-> queryPage(rawPage), limit |-> queryLimit(rawLimit)]

\* the texts a client puts in ?page= and ?limit=
ParamTexts ==
    { <<>>, <<"0">>, <<"-", "1">>, <<"1">>, <<"3">>, <<"1", "0", "0">>,
      <<"1", "0", "1">>, <<"a", "b", "c">> }

RawParams == Opt(ParamTexts)

\* req: the query string received, then the query handed to the service
InitQuery ==
    /\ store = <<>>
    /\ last = NoCall
    /\ pg = <<>>
    /\ \E rawPage \in RawParams, rawLimit \in RawParams :
          req = [op |-> "received", page |-> rawPage, limit |-> rawLimit]
    /\ users = <<>>
    /\ now = 0
    /\ reply = NoReply
    /\ procs = NoProcs

GetAllProducts ==
    /\ req.op = "received"
    /\ req' = [op |-> "getAllProducts", page |-> req.page, limit |-> req.limit,
               query |-> productQuery(req.page, req.limit)]
    /\ UNCHANGED <<procs, store, last, pg, authVars>>

SearchProducts ==
    /\ req.op = "received"
    /\ req' = [op |-> "searchProducts", page |-> req.page, limit |-> req.limit,
               query |-> productQuery(req.page, req.limit)]
    /\ UNCHANGED <<procs, store, last, pg, authVars>>

NextQuery == GetAllProducts \/ SearchProducts

SpecQuery == InitQuery /\ [][NextQuery]_vars

(* =============================== claims ================================= *)
sameIgnoringCase(a, b) == toUpperCase(a) = toUpperCase(b)

AbsentIds == ProductIds \ (1..Len(store))

NonAdmins == {c \in Users : UserRole[c] # "admin"}

\* the store after a product of owner o with the data d has been added
Added(r, o, d) ==
    /\ r.err = "OK"
    /\ Len(r.store) = Len(store) + 1
    /\ SubSeq(r.store, 1, Len(store)) = store
    /\ r.store[Len(r.store)].userId = o
    /\ r.store[Len(r.store)].images = IF d.images = None THEN <<>> ELSE Get(d.images)

C2_ForeignLikeAbsent ==
    Idle => \A c \in NonAdmins :
        \A id \in {i \in 1..Len(store) : Foreign(store, c, i)} \cup AbsentIds :
            LET scope == ownerUserId(c)
                refused == Fail("NotFoundOrForbidden", store)
            IN /\ getProductById(store, id, scope) = NullId
               /\ \A u \in UpdateData : updateProduct(store, id, scope, u) = refused
               /\ deleteProduct(store, id, scope) = refused
               /\ \A q \in 0..MaxQty : updateStock(store, id, q, scope) = refused
               /\ \A a \in Adjustments : adjustStock(store, id, a, scope) = refused

C2_Witness ==
    /\ last.op = "adjustStock"
    /\ last.err = "NotFoundOrForbidden"
    /\ Foreign(store, last.caller, last.id)

Range(q) == {q[k] : k \in 1..Len(q)}

Admins == Users \ NonAdmins

ActiveIds == {i \in 1..Len(store) : store[i].isActive}

\* the products of the store that belong to c, in creation order
OwnProducts(c) == SelectSeq(store, LAMBDA p : p.userId = c)

\* C3 as stated: no product operation called by a user or a manager returns
\* or modifies a product of another user, in the listing operations as in the
\* by-id ones; an admin is not restricted by ownership in any of them.
C3_AsStated ==
    Idle =>
    /\ \A c \in NonAdmins :
        /\ \A q \in ProductQueries :
             /\ \A i \in Range(ctlGetAllProducts(store, c, q).data) : store[i].userId = c
             /\ \A i \in Range(ctlSearchProducts(store, c, q).data) : store[i].userId = c
        /\ \A i \in Range(ctlGetLowStockProducts(store, c)) : store[i].userId = c
        /\ ctlGetInventoryStats(store, c) = getInventoryStats(OwnProducts(c), NoScope)
        /\ \A id \in 1..Len(store) :
             store[id].userId # c =>
                /\ ctlGetProductById(store, c, id) = NullId
                /\ \A u \in UpdateData :
                     updateProduct(store, id, ownerUserId(c), u).store = store
                /\ deleteProduct(store, id, ownerUserId(c)).store = store
                /\ \A q \in -1..MaxQty :
                     updateStock(store, id, q, ownerUserId(c)).store = store
                /\ \A a \in Adjustments :
                     adjustStock(store, id, a, ownerUserId(c)).store = store
    /\ \A c \in Admins :
        /\ \A id \in ActiveIds :
             /\ ctlGetProductById(store, c, id) = id
             /\ deleteProduct(store, id, ownerUserId(c)).err = "OK"
             /\ updateStock(store, id, 0, ownerUserId(c)).err = "OK"
        /\ Range(ctlGetLowStockProducts(store, c))
             = {i \in ActiveIds : store[i].quantity <= store[i].minStockLevel}
        /\ ctlGetInventoryStats(store, c).totalProducts = Cardinality(ActiveIds)

\* C4: adjustStock on a visible active product with quantity q fails with
\* InsufficientStock, the quantity still q, when q + delta < 0, and succeeds
\* storing exactly q + delta otherwise; no stored quantity is ever negative.
C4_AdjustStock ==
    /\ \A i \in 1..Len(store) : store[i].quantity >= 0
    /\ Idle =>
         \A scope \in Scopes, id \in ProductIds, delta \in Adjustments :
            getProductById(store, id, scope) # NullId =>
               LET q == store[id].quantity
                   r == adjustStock(store, id, delta, scope)
               IN IF q + delta < 0
                  THEN r = Fail("InsufficientStock", store)
                  ELSE r = Ok([store EXCEPT ![id].quantity = q + delta])

\* an adjustment was refused and the stock is still there
C4_Witness ==
    /\ last.op = "adjustStock"
    /\ last.err = "InsufficientStock"
    /\ store[last.id].quantity = MaxQty

\* what a request would store below zero
NegativeData(d) == d.price < 0 \/ d.quantity < 0

NegativePatch(u) ==
    \/ u.price # None /\ Get(u.price) < 0
    \/ u.quantity # None /\ Get(u.quantity) < 0

NonNegativeStore == \A i \in 1..Len(store) : store[i].quantity >= 0 /\ store[i].price >= 0

\* createProduct, updateProduct, updateStock and adjustStock refuse a negative
\* quantity or price and change nothing
SingleRefusals ==
    /\ \A o \in Users, d \in ProductData :
         NegativeData(d) =>
            LET r == createProduct(store, o, d) IN r.err # "OK" /\ r.store = store
    /\ \A scope \in Scopes, id \in ProductIds :
         /\ \A u \in UpdateData :
              NegativePatch(u) =>
                 LET r == updateProduct(store, id, scope, u)
                 IN r.err # "OK" /\ r.store = store
         /\ LET r == updateStock(store, id, -1, scope)
            IN r.err # "OK" /\ r.store = store
         /\ \A a \in Adjustments :
              (findById(store, id) # NullId /\ store[id].quantity + a < 0) =>
                 LET r == adjustStock(store, id, a, scope)
                 IN r.err # "OK" /\ r.store = store

\* C5 as stated: quantity and price of every stored product are never
\* negative, and every operation that would store a negative quantity or
\* price - a bulk stock update included - fails and leaves the products
\* unchanged.
C5_AsStated ==
    /\ NonNegativeStore
    /\ Idle =>
         /\ SingleRefusals
         /\ \A scope \in Scopes, u \in BulkUpdates :
              (\E k \in 1..Len(u) : u[k].quantity < 0) =>
                 LET r == bulkUpdateStock(store, u, scope)
                 IN r.err # "OK" /\ r.store = store

\* the entries of a bulk update that updateStock refuses on the store
Refused(u, scope) ==
    {k \in 1..Len(u) :
        u[k].quantity < 0 \/ getProductById(store, u[k].productId, scope) = NullId}

\* C5 amended: quantity and price are never negative; createProduct,
\* updateProduct, updateStock and adjustStock refuse a negative value and
\* change nothing; a bulk stock update with a negative entry fails, keeping
\* exactly the quantities set by the entries before its first refused entry.
C5_NonNegative ==
    /\ NonNegativeStore
    /\ Idle =>
         /\ SingleRefusals
         /\ \A scope \in Scopes, u \in BulkUpdates :
              (\E k \in 1..Len(u) : u[k].quantity < 0) =>
                 LET r == bulkUpdateStock(store, u, scope)
                     first == CHOOSE k \in Refused(u, scope) :
                                 \A j \in Refused(u, scope) : k <= j
                     before(i) == {j \in 1..(first - 1) : u[j].productId = i}
                     written(i) == CHOOSE j \in before(i) : \A m \in before(i) : m <= j
                 IN /\ r.err # "OK"
                    /\ Len(r.store) = Len(store)
                    /\ \A i \in 1..Len(store) :
                         r.store[i] =
                            IF before(i) = {} THEN store[i]
                            ELSE [store[i] EXCEPT !.quantity = u[written(i)].quantity]

\* a bulk update was refused for a negative quantity
C5_Witness ==
    /\ last.op = "bulkUpdateStock"
    /\ last.err = "NegativeQuantity"
    /\ \E i \in 1..Len(store) : store[i].quantity = MaxQty

\* C6: with the calls run one after the other, no two stored products, active
\* or not, have SKUs equal ignoring letter case, and every stored SKU is in
\* its uppercased form.
C6_SkuUnique ==
    /\ \A i, j \in 1..Len(store) :
         i # j => ~sameIgnoringCase(store[i].sku, store[j].sku)
    /\ \A i \in 1..Len(store) : store[i].sku = toUpperCase(store[i].sku)

\* an update was refused for its SKU while two products are stored
C6_Witness ==
    /\ Len(store) = 2
    /\ last.op = "updateProduct"
    /\ last.err = "DuplicateSKU"

StatusMatches(p) ==
    /\ stockStatus(p) = "OUT_OF_STOCK" <=> p.quantity = 0
    /\ stockStatus(p) = "LOW_STOCK" <=> (0 < p.quantity /\ p.quantity <= p.minStockLevel)
    /\ stockStatus(p) = "IN_STOCK" <=> (0 < p.quantity /\ p.quantity > p.minStockLevel)

\* C7: the derived stockStatus is OUT_OF_STOCK exactly when the quantity is 0,
\* LOW_STOCK exactly when 0 < quantity <= minStockLevel, IN_STOCK otherwise,
\* and after updateStock it is the status of the new quantity.
C7_StockStatus ==
    /\ \A i \in 1..Len(store) : StatusMatches(store[i])
    /\ Idle =>
         \A scope \in Scopes, id \in ProductIds, q \in 0..MaxQty :
            LET r == updateStock(store, id, q, scope)
            IN r.err = "OK" =>
                 /\ r.store[id].quantity = q
                 /\ StatusMatches(r.store[id])
                 /\ (q > store[id].minStockLevel) => stockStatus(r.store[id]) = "IN_STOCK"

\* updateStock brought a product down to its minimum level
C7_Witness ==
    /\ last.op = "updateStock"
    /\ last.err = "OK"
    /\ store[last.id].quantity = store[last.id].minStockLevel
    /\ stockStatus(store[last.id]) = "LOW_STOCK"

\* product i appears in no listing and no lookup, whoever asks
Hidden(i) ==
    \A c \in Users :
        /\ ctlGetProductById(store, c, i) = NullId
        /\ i \notin Range(ctlGetLowStockProducts(store, c))
        /\ \A q \in ProductQueries : i \notin Range(ctlSearchProducts(store, c, q).data)

\* no request can create a product with the SKU of product i
SkuReserved(i) ==
    \A o \in Users, d \in ProductData :
        sameIgnoringCase(d.sku, store[i].sku) =>
            createProduct(store, o, d) = Fail("DuplicateSKU", store)

\* C8: once deleteProduct has succeeded on a product, the product stays out of
\* the results of searchProducts, getLowStockProducts and getProductById for
\* every caller, and createProduct with its SKU in any letter case fails with
\* DuplicateSKU, in every later state.
C8_SoftDelete ==
    /\ []((last.op = "deleteProduct" /\ last.err = "OK") => ~store[last.id].isActive)
    /\ [](Idle => \A i \in 1..Len(store) :
                     ~store[i].isActive => Hidden(i) /\ SkuReserved(i))
    /\ [][\A i \in 1..Len(store) :
            ~store[i].isActive =>
               /\ i <= Len(store')
               /\ ~store'[i].isActive
               /\ store'[i].sku = store[i].sku]_vars

\* a product has just been soft-deleted next to an active one
C8_Witness ==
    /\ last.op = "deleteProduct"
    /\ last.err = "OK"
    /\ Len(store) = 2
    /\ \E i \in 1..Len(store) : store[i].isActive

\* C9: a product whose active flag is false keeps it false in every later
\* state, whatever operation the owner or an admin calls, and no product is
\* ever removed from the store.
C9_StaysInactive ==
    [][/\ Len(store') >= Len(store)
       /\ \A i \in 1..Len(store) :
            ~store[i].isActive => ~store'[i].isActive]_vars

\* an admin's update of a soft-deleted product was refused
C9_Witness ==
    /\ last.op = "updateProduct"
    /\ last.err = "NotFoundOrForbidden"
    /\ last.caller = "root"
    /\ last.id \in 1..Len(store)
    /\ ~store[last.id].isActive

\* the record at position k of n records sorted by creation time
SortedAt(n, sortOrder, k) == IF sortOrder = "asc" THEN k ELSE n + 1 - k

\* C10: for page >= 1 and limit L >= 1 over N matching records,
\* findWithPagination returns total = N, pages = ceil(N/L), hasNext =
\* (page < pages), hasPrev = (page > 1) and the records at positions
\* (page-1)*L+1 .. min(page*L, N) of the sorted matches: at most L, and none
\* when page > pages.
C10_Pagination ==
    pg.read =>
        LET r == pg.res
            N == pg.n
            L == r.limit
            from == (r.page - 1) * L
            to == IF r.page * L < N THEN r.page * L ELSE N
        IN /\ r.total = N
           /\ r.pages >= 0 /\ r.pages * L >= N /\ (r.pages - 1) * L < N
           /\ r.hasNext = (r.page < r.pages)
           /\ r.hasPrev = (r.page > 1)
           /\ Len(r.data) = (IF to > from THEN to - from ELSE 0)
           /\ \A k \in 1..Len(r.data) : r.data[k] = SortedAt(N, pg.sortOrder, from + k)
           /\ Len(r.data) <= L
           /\ r.page > r.pages => r.data = <<>>
           /\ N = 0 => r.pages = 0 /\ ~r.hasNext

\* a page in the middle, and a page past the end
C10_Witness ==
    /\ pg.read
    /\ pg.n = MaxRecords
    /\ pg.res.hasNext /\ pg.res.hasPrev
    /\ Len(pg.res.data) = pg.res.limit

\* C11 as stated: whatever the page and limit parameters of getAllProducts or
\* searchProducts are (absent, zero, negative, above 100, or any other text),
\* the query handed to the service has page >= 1 and 1 <= limit <= 100, with
\* page = 1 and limit = 10 when the parameter is absent.
C11_AsStated ==
    req.op \in {"getAllProducts", "searchProducts"} =>
        /\ req.query.page # NaN /\ Get(req.query.page) >= 1
        /\ req.query.limit # NaN
        /\ Get(req.query.limit) >= 1 /\ Get(req.query.limit) <= 100
        /\ req.page = None => req.query.page = Num(1)
        /\ req.limit = None => req.query.limit = Num(10)

sameEmail(a, b) == toLowerCase(a) = toLowerCase(b)

\* the users whose email is the given one ignoring letter case
WithEmail(email) == {i \in 1..Len(users) : sameEmail(users[i].email, email)}

InvalidCredentials == "Invalid email or password"

AccountDeactivated == "Account is deactivated. Please contact support"

\* the token verifies now and carries the id, email and role of user i of us
TokenOf(token, us, i) ==
    LET v == verifyToken(token, now)
    IN /\ v.err = "OK"
       /\ v.decoded.userId = i
       /\ v.decoded.email = us[i].email
       /\ v.decoded.role = us[i].role

Conflict == "User already exists with this email"

\* C13: register fails with Conflict and creates no user whenever an existing
\* user's email equals the given one ignoring letter case; otherwise it
\* creates exactly one user whose role is the given role, or "user" when none
\* is given, and returns a token for that user with the user record without
\* its password. No two users ever share an email ignoring case.
C13_Register ==
    /\ \A i, j \in 1..Len(users) : i # j => ~sameEmail(users[i].email, users[j].email)
    /\ AuthIdle => \A d \in RegisterRequests :
         LET r == register(users, d, now)
             n == Len(users) + 1
         IN IF WithEmail(d.email) # {}
            THEN r.err = Conflict /\ r.users = users /\ r.token = None /\ r.user = None
            ELSE /\ r.err = "OK"
                 /\ Len(r.users) = n
                 /\ SubSeq(r.users, 1, Len(users)) = users
                 /\ sameEmail(r.users[n].email, d.email)
                 /\ r.users[n].role = (IF d.role = None THEN "user" ELSE Get(d.role))
                 /\ r.users[n].isActive
                 /\ r.user # None
                 /\ "password" \notin DOMAIN Get(r.user)
                 /\ \A f \in DOMAIN Get(r.user) : Get(r.user)[f] = r.users[n][f]
                 /\ r.token # None
                 /\ TokenOf(Get(r.token), r.users, n)

\* a registration was refused for an address that differs in case only
C13_Witness ==
    /\ reply.op = "register"
    /\ reply.err = Conflict
    /\ reply.arg.email = <<"A">>
    /\ \E i \in 1..Len(users) : users[i].email = <<"a">>

\* what jwt.verify finds in a token
wellSigned(token) == jwtVerify(token, jwtSecret, 0).err # "JsonWebTokenError"

expired(token) == now >= token.exp

\* C14 as stated: verifyToken fails with InvalidToken when the signature does
\* not verify and with the distinct failure TokenExpired when a correctly
\* signed token is past its expiry; for a correctly signed unexpired token it
\* returns the userId, email and role the token was issued with.
C14_AsStated ==
    AuthIdle =>
        /\ \A tok \in Tokens(users, now) :
             LET r == verifyToken(tok, now)
             IN IF wellSigned(tok) /\ ~expired(tok)
                THEN /\ r.err = "OK"
                     /\ r.decoded.userId = tok.payload.userId
                     /\ r.decoded.email = tok.payload.email
                     /\ r.decoded.role = tok.payload.role
                ELSE r.err # "OK"
        /\ \A bad, old \in Tokens(users, now) :
             (~wellSigned(bad) /\ wellSigned(old) /\ expired(old))
                => verifyToken(bad, now).err # verifyToken(old, now).err

\* C15 as stated: changePassword fails with InvalidCredentials, the stored
\* password unchanged, when currentPassword does not match the stored password
\* of user userId; when it matches, the call succeeds and the stored password
\* of that user, and of no other, is replaced by newPassword, so that a later
\* login with newPassword succeeds and one with the old password fails.
C15_AsStated ==
    AuthIdle => \A id \in 1..Len(users), cur \in Passwords, new \in Passwords :
        LET r == changePassword(users, id, cur, new)
        IN IF ~comparePassword(users[id], cur)
           THEN r.err # "OK" /\ r.users = users
           ELSE /\ r.err = "OK"
                /\ r.users = [users EXCEPT ![id].password = hashPassword(new)]
                /\ users[id].isActive =>
                     /\ login(r.users, [email |-> users[id].email, password |-> new],
                              now).err = "OK"
                     /\ new # cur =>
                          login(r.users, [email |-> users[id].email, password |-> cur],
                                now).err = InvalidCredentials

\* C16: updateProfile changes at most firstName, lastName and profileImage of
\* user userId, and only those present in the input; the user's email,
\* password, role and active flag, and every other user, are unchanged, and an
\* input carrying any other field is accepted without error.
C16_UpdateProfile ==
    AuthIdle => \A id \in UserIds, d \in ProfileData :
        LET r == updateProfile(users, id, d)
        IN /\ r.err = "OK"
           /\ Len(r.users) = Len(users)
           /\ \A i \in 1..Len(users) :
                \A f \in DOMAIN users[i] :
                    r.users[i][f] =
                        IF i = id /\ f \in {"firstName", "lastName", "profileImage"}
                           /\ f \in DOMAIN d
                        THEN d[f] ELSE users[i][f]

\* a profile update that also named the email changed the first name only
C16_Witness ==
    /\ reply.op = "updateProfile"
    /\ reply.err = "OK"
    /\ DOMAIN reply.arg.profileData = {"firstName"} \cup (DOMAIN ProfileFields \ allowedFields)
    /\ Len(users) = 2
    /\ users[reply.arg.userId].firstName = "G"
    /\ users[reply.arg.userId].lastName = "L"
    /\ users[reply.arg.userId].email # ProfileFields.email

UserInactive == "User not found or inactive"

\* C17: for a user id that is missing or whose active flag is false,
\* getCurrentUser returns null without an error and refreshToken fails with
\* UserInactive without issuing a token; for an existing active user,
\* getCurrentUser returns that user and refreshToken issues a token carrying
\* the user's id, email and role as stored.
C17_CurrentUser ==
    AuthIdle => \A id \in UserIds :
        LET r == refreshToken(users, id, now)
        IN IF id \notin 1..Len(users) \/ ~users[id].isActive
           THEN /\ getCurrentUser(users, id) = NullId
                /\ r.err = UserInactive /\ r.token = None /\ r.users = users
           ELSE /\ getCurrentUser(users, id) = id
                /\ r.err = "OK" /\ r.users = users
                /\ r.token # None
                /\ TokenOf(Get(r.token), users, id)

\* the session of a deactivated user was found invalid
C17_Witness ==
    /\ reply.op = "getCurrentUser"
    /\ reply.arg \in 1..Len(users)
    /\ ~users[reply.arg].isActive
    /\ reply.user = None

\* product id exists, is active and is inside the scope
Visible(scope, id) ==
    /\ id \in 1..Len(store)
    /\ store[id].isActive
    /\ scope = NoScope \/ store[id].userId = scope

\* C18 as stated: updateProduct fails with NotFoundOrForbidden when the scoped
\* lookup fails; it fails with DuplicateSKU only when a different product
\* holds the SKU of the patch (ignoring letter case) - a patch whose sku is
\* the product's own SKU in another letter case is not rejected; on every
\* failure the product is unchanged.
C18_AsStated ==
    Idle => \A scope \in Scopes, id \in ProductIds, u \in UpdateData :
        LET r == updateProduct(store, id, scope, u)
        IN /\ ~Visible(scope, id) => r = Fail("NotFoundOrForbidden", store)
           /\ r.err # "OK" => r.store = store
           /\ (Visible(scope, id) /\ r.err = "DuplicateSKU") =>
                /\ u.sku # None
                /\ \E j \in (1..Len(store)) \ {id} :
                      sameIgnoringCase(store[j].sku, trim(Get(u.sku)))
           /\ ( /\ Visible(scope, id)
                /\ u.sku # None
                /\ sameIgnoringCase(store[id].sku, Get(u.sku)) )
                => r.err = "OK"

\* C19: deleteProduct on an active product visible in scope changes only that
\* product's active flag, to false, and returns true; on an id that is
\* absent, already inactive or outside the scope it fails with
\* NotFoundOrForbidden and changes nothing, so a second delete of the same id
\* fails.
C19_DeleteProduct ==
    Idle => \A scope \in Scopes, id \in ProductIds :
        LET r == deleteProduct(store, id, scope)
        IN IF Visible(scope, id)
           THEN /\ r.err = "OK"
                /\ r.val
                /\ r.store = [store EXCEPT ![id].isActive = FALSE]
                /\ deleteProduct(r.store, id, scope)
                      = Fail("NotFoundOrForbidden", r.store)
           ELSE r = Fail("NotFoundOrForbidden", store)

\* the owner's second delete of a product in stock was refused
C19_Witness ==
    /\ last.op = "deleteProduct"
    /\ last.err = "NotFoundOrForbidden"
    /\ last.id \in 1..Len(store)
    /\ store[last.id].userId = last.caller
    /\ ~store[last.id].isActive
    /\ store[last.id].quantity = MaxQty

\* C20: updateStock fails with NegativeQuantity when newQuantity < 0, whether
\* or not the product exists or is visible; it fails with NotFoundOrForbidden
\* when newQuantity >= 0 and the scoped lookup fails; otherwise it sets the
\* quantity to exactly newQuantity, all other fields and products unchanged;
\* on either failure nothing changes.
C20_UpdateStock ==
    Idle => \A scope \in Scopes, id \in ProductIds, q \in -1..MaxQty :
        LET r == updateStock(store, id, q, scope)
        IN IF q < 0 THEN r = Fail("NegativeQuantity", store)
           ELSE IF ~Visible(scope, id) THEN r = Fail("NotFoundOrForbidden", store)
           ELSE r = Ok([store EXCEPT ![id].quantity = q])

\* a negative quantity was refused for a product of another user
C20_Witness ==
    /\ last.op = "updateStock"
    /\ last.err = "NegativeQuantity"
    /\ last.id \in 1..Len(store)
    /\ store[last.id].isActive
    /\ last.caller \in NonAdmins
    /\ store[last.id].userId # last.caller

\* the quantity the entries 1..n of a bulk update leave in product i
RECURSIVE QuantityAfter(_, _, _)
QuantityAfter(u, n, i) ==
    IF n = 0 THEN store[i].quantity
    ELSE IF u[n].productId = i THEN u[n].quantity
    ELSE QuantityAfter(u, n - 1, i)

\* C21: the bulk stock update applies updateStock to its entries in list
\* order and is not atomic: when the entry at position k is the first to
\* fail, the quantities set by entries 1..k-1 stay applied, the failure of
\* entry k is raised to the caller, and the entries after k are not applied.
C21_BulkNotAtomic ==
    Idle => \A scope \in Scopes, u \in BulkUpdates :
        LET r == bulkUpdateStock(store, u, scope)
            failing == Refused(u, scope)
            k == IF failing = {} THEN Len(u) + 1
                 ELSE CHOOSE n \in failing : \A m \in failing : n <= m
        IN /\ r.err = (IF failing = {} THEN "OK"
                       ELSE updateStock(store, u[k].productId, u[k].quantity, scope).err)
           /\ failing # {} => r.err \in {"NegativeQuantity", "NotFoundOrForbidden"}
           /\ Len(r.store) = Len(store)
           /\ \A i \in 1..Len(store) :
                r.store[i] = [store[i] EXCEPT !.quantity = QuantityAfter(u, k - 1, i)]

\* a bulk update stopped at a product out of reach after its first entry,
\* for a product of the caller, had been applied
C21_Witness ==
    /\ last.op = "bulkUpdateStock"
    /\ last.err = "NotFoundOrForbidden"
    /\ last.id \in 1..Len(store)
    /\ store[last.id].isActive
    /\ store[last.id].userId = last.caller
    /\ store[last.id].quantity = MaxQty

\* the active products inside the scope
InScope(scope) == {i \in ActiveIds : scope = NoScope \/ store[i].userId = scope}

\* C22 as stated: getInventoryStats against an unchanging store returns
\* totalProducts = the number of active products in scope, totalValue = the
\* sum of price*quantity over them, lowStockCount = the number of them with
\* quantity <= minStockLevel and outOfStockCount = the number of them with
\* quantity 0; inactive products contribute to none of the four.
C22_AsStated ==
    Idle => \A scope \in Scopes :
        LET r == getInventoryStats(store, scope)
        IN /\ r.totalProducts = Cardinality(InScope(scope))
           /\ r.totalValue = sumValue(store, InScope(scope))
           /\ r.lowStockCount =
                Cardinality({i \in InScope(scope) :
                               store[i].quantity <= store[i].minStockLevel})
           /\ r.outOfStockCount =
                Cardinality({i \in InScope(scope) : store[i].quantity = 0})

\* C23 as stated, for the product routes: each rule-layer failure reaches the
\* caller with the status the spec's table assigns to it: a duplicate SKU on
\* createProduct gives 409, a not-found or forbidden product on updateProduct
\* or deleteProduct gives 404, a negative quantity on updateStock and an
\* insufficient stock on adjustStock give 400.
C23_AsStated ==
    /\ (last.op = "createProduct" /\ last.err = "DuplicateSKU")
          => responseStatus(last) = 409
    /\ (last.op \in {"updateProduct", "deleteProduct"} /\ last.err = "NotFoundOrForbidden")
          => responseStatus(last) = 404
    /\ (last.op = "updateStock" /\ last.err = "NegativeQuantity")
          => responseStatus(last) = 400
    /\ (last.op = "adjustStock" /\ last.err = "InsufficientStock")
          => responseStatus(last) = 400

\* C25 as stated: the owner of a product is the caller of createProduct,
\* whatever owner the request data names, and never changes afterwards under
\* any sequence of updateProduct, updateStock, adjustStock and deleteProduct
\* calls, an updateProduct whose patch carries an owner id included.
C25_AsStated ==
    /\ []((last.op = "createProduct" /\ last.err = "OK")
             => store[last.id].userId = last.caller)
    /\ [][\A i \in 1..Len(store) : store'[i].userId = store[i].userId]_vars

\* C27 as stated: a login with a password that does not match gets the same
\* InvalidCredentials failure whether the email belongs to an active account,
\* to a deactivated account or to no account; AccountDeactivated is returned
\* only to a caller who supplied the account's correct password.
C27_AsStated ==
    AuthIdle => \A c \in LoginRequests :
        LET r == login(users, c, now)
            right == \E i \in WithEmail(c.email) : comparePassword(users[i], c.password)
        IN /\ ~right => r.err = InvalidCredentials
           /\ r.err = AccountDeactivated => right

\* C26: the access boundary attaches an identity to a request and lets it
\* through only when the header is 'Bearer <token>', the token verifies and
\* the user it names exists and is active at that moment; every other request
\* - one of a user deactivated since the token was issued, one with no token
\* or a malformed header - is answered 401 and reaches no operation.
C26_Boundary ==
    AuthIdle => \A request \in Requests(users, now) :
        LET r == authenticate(users, request, now)
            tok == request.token
            admitted ==
                /\ request.authorization = Some(<<"Bearer", " ", "<token>">>)
                /\ wellSigned(tok)
                /\ ~expired(tok)
                /\ tok.payload.userId \in 1..Len(users)
                /\ users[tok.payload.userId].isActive
        IN /\ r.next <=> admitted
           /\ ~r.next => r.status = 401 /\ r.user = None
           /\ r.next =>
                /\ r.user # None
                /\ Get(r.user).userId = tok.payload.userId
                /\ Get(r.user).email = tok.payload.email
                /\ Get(r.user).role = tok.payload.role

\* a token issued to a user who has been deactivated since was refused
C26_Witness ==
    /\ reply.op = "authenticate"
    /\ reply.status = 401
    /\ ~reply.next
    /\ reply.arg.authorization = Some(<<"Bearer", " ", "<token>">>)
    /\ reply.arg.token \in IssuedTokens(users, now)
    /\ ~expired(reply.arg.token)
    /\ ~users[reply.arg.token.payload.userId].isActive

\* the calls of the scenario that are createProduct calls of one SKU
SameSku(j, k) ==
    /\ j # k
    /\ procs[j].op = "createProduct"
    /\ procs[k].op = "createProduct"
    /\ skuSetter(procs[j].data.sku) = skuSetter(procs[k].data.sku)

\* C24: the pre-check of createProduct is no guarantee when calls interleave:
\* when two createProduct calls of the same SKU have both run their pre-check
\* before either write (each pre-check found nothing), the store, having no
\* uniqueness constraint on sku, accepts both writes: both calls succeed and
\* two products with the same SKU exist.
C24_DuplicateThroughRace ==
    \A j, k \in 1..Len(procs) :
        ( /\ SameSku(j, k)
          /\ procs[j].pc = "done" /\ procs[k].pc = "done"
          /\ procs[j].product = NullId /\ procs[k].product = NullId )
        => /\ procs[j].err = "OK" /\ procs[k].err = "OK"
           /\ procs[j].seen < procs[k].id /\ procs[k].seen < procs[j].id
           /\ procs[j].id # procs[k].id
           /\ {procs[j].id, procs[k].id} \subseteq 1..Len(store)
           /\ store[procs[j].id].sku = store[procs[k].id].sku
           /\ store[procs[j].id].isActive /\ store[procs[k].id].isActive

\* two calls of one SKU have both returned a product
C24_Witness ==
    \E j, k \in 1..Len(procs) :
        /\ SameSku(j, k)
        /\ procs[j].pc = "done" /\ procs[k].pc = "done"
        /\ procs[j].err = "OK" /\ procs[k].err = "OK"
        /\ Len(store) >= 2
        /\ store[procs[j].id].sku = store[procs[k].id].sku
        /\ procs[j].id # procs[k].id

\* C28 as stated: when two adjustStock calls on one product, with deltas d1
\* and d2, run side by side with their store reads and writes interleaved in
\* any order and both return success, the final quantity of the product is
\* the initial one + d1 + d2.
C28_AsStated ==
    \A c, j, k \in 1..Len(procs) :
        ( /\ procs[c].op = "createProduct" /\ procs[c].pc = "done"
          /\ procs[c].err = "OK"
          /\ j # k
          /\ \A m \in {j, k} :
                /\ procs[m].op = "adjustStock"
                /\ procs[m].id = procs[c].id
                /\ procs[m].pc = "done"
                /\ procs[m].err = "OK"
          /\ \A m \in 1..Len(procs) \ {j, k} : procs[m].op = "createProduct" )
        => store[procs[c].id].quantity
             = procs[c].data.quantity + procs[j].n + procs[k].n

\* C29 as stated: the quantity of a product never changes while its active
\* flag is false, for every interleaving of updateStock or adjustStock with a
\* deleteProduct on the same product.
C29_AsStated ==
    [][\A i \in 1..Len(store) :
          ~store[i].isActive => store'[i].quantity = store[i].quantity]_vars

\* C30 as stated: every result of getInventoryStats satisfies
\* outOfStockCount <= lowStockCount <= totalProducts, also when createProduct,
\* deleteProduct or stock updates of other callers interleave between its
\* store reads.
C30_AsStated ==
    \A k \in 1..Len(procs) :
        (procs[k].op = "getInventoryStats" /\ procs[k].pc = "done")
        => LET r == procs[k].stats
           IN /\ Get(r.outOfStockCount) <= Get(r.lowStockCount)
              /\ Get(r.lowStockCount) <= Get(r.totalProducts)

====
